---- MODULE Spec2Model ----
(***************************************************************************)
(* FinRisk training pipeline (ml-pipeline/training_simple.py).             *)
(*                                                                         *)
(* The model follows main(): generate -> split -> create -> train ->       *)
(* convert -> test -> save, and save_model_for_android() at the            *)
(* granularity of its file-system calls (makedirs, open/write of the       *)
(* model file, open/dump of the metadata file).                            *)
(*                                                                         *)
(* Numbers.  Features are held in tenths (0.8 is 8), risk scores and the   *)
(* Gaussian noise in hundredths (0.77 is 77), ages in tenths of a year,    *)
(* incomes in dollars.  All draws lie on grid points where the source's    *)
(* float arithmetic is exact, so the integer arithmetic below computes     *)
(* what the source computes.  model_size_kb is the exact fraction          *)
(* len / 1024, held as numerator and denominator.                          *)
(***************************************************************************)
EXTENDS Integers, Sequences, FiniteSets

VARIABLES
    rng,            \* ambient numpy random state: the draws of the next generate call
    n_wanted,       \* dataset size a caller would like; no function takes it (line 5, 13)
    pc,             \* position of main(); "idle" when main is not running
    started,        \* stages of main that have begun, in order
    completed,      \* stages of main that have returned, in order
    failed_at,      \* stage whose exception left main, or "none"
    exit_status,    \* "running", "zero" or "nonzero"
    X, y,           \* the generated dataset (rows carry their position as row)
    split_idx, X_train, X_test, y_train, y_test,
    model,          \* the Keras model, or "none"
    tflite_model,   \* the converted artifact, or "none"
    test_sample, output_data, decision, invokes, validate_ret,
    save_pc,        \* position inside save_model_for_android
    save_arg,       \* its tflite_model argument
    raised_at,      \* call of save that raised, or "none"
    calls,          \* number of save calls begun
    dir_exists, dir_writable, files,   \* the output directory
    snap,           \* contents of the directory when the current save call began
    ro_at_call,     \* the directory existed and was read-only when the call began
    existed_at_call,\* the directory existed when the call began
    first_ok        \* artifact and directory contents of the first successful save

vars == << rng, n_wanted, pc, started, completed, failed_at, exit_status, X, y,
           split_idx, X_train, X_test, y_train, y_test, model, tflite_model,
           test_sample, output_data, decision, invokes, validate_ret,
           save_pc, save_arg, raised_at, calls, dir_exists, dir_writable, files,
           snap, ro_at_call, existed_at_call, first_ok >>

mainVars == << pc, started, completed, failed_at, exit_status >>
dataVars == << X, y, split_idx, X_train, X_test, y_train, y_test >>
testVars == << test_sample, output_data, decision, invokes, validate_ret >>
saveVars == << save_pc, save_arg, raised_at, calls, snap, ro_at_call,
               existed_at_call, first_ok >>
diskVars == << dir_exists, dir_writable, files >>

----------------------------------------------------------------------------
(* Bounds *)

\* Rows per dataset.  The source draws 10000 (line 13); the model draws few.
n_samples == 3

\* Calls of save_model_for_android on one directory.
MaxCalls == 3

Range(s) == { s[i] : i \in DOMAIN s }

----------------------------------------------------------------------------
(* create_finrisk_training_data, lines 5-50 *)

INCOME_LOW == 20000
INCOME_HIGH == 200000
AGE_LOW == 180
AGE_HIGH == 650
THRESHOLD == 60

\* One row's worth of random draws: uniform income, uniform age (tenths of a
\* year), Beta(2,2) engagement (tenths), normal(0, 0.1) noise (hundredths).
Draws ==
    { [income_raw |-> 164000, age_raw |-> 415, engagement |-> 9, noise |-> 0],
      [income_raw |-> 38000,  age_raw |-> 227, engagement |-> 1, noise |-> 0],
      [income_raw |-> 164000, age_raw |-> 509, engagement |-> 2, noise |-> 0],
      [income_raw |-> 164000, age_raw |-> 509, engagement |-> 2, noise |-> 1],
      [income_raw |-> 164000, age_raw |-> 415, engagement |-> 9, noise |-> -20],
      [income_raw |-> 164000, age_raw |-> 415, engagement |-> 9, noise |-> -17],
      [income_raw |-> 110000, age_raw |-> 415, engagement |-> 5, noise |-> 10],
      [income_raw |-> 110000, age_raw |-> 415, engagement |-> 5, noise |-> 11] }

WantedSizes == {-5, 0, 1}

income_normalized(d) == ((d.income_raw - INCOME_LOW) * 10) \div (INCOME_HIGH - INCOME_LOW)

age_normalized(d) == ((d.age_raw - AGE_LOW) * 10) \div (AGE_HIGH - AGE_LOW)

risk_score(d) ==
    income_normalized(d) * 5 + age_normalized(d) * 2 + d.engagement * 3 + d.noise

Label_ge(score) == IF score >= THRESHOLD THEN 1 ELSE 0

Label(score) == IF score > THRESHOLD THEN 1 ELSE 0

GenX_short(r) ==
    [ i \in 1..(n_samples - 1) |->
        [ row |-> i,
          f   |-> << income_normalized(r[i]), age_normalized(r[i]), r[i].engagement >> ] ]

GenX(r) ==
    [ i \in 1..n_samples |->
        [ row |-> i,
          f   |-> << income_normalized(r[i]), age_normalized(r[i]), r[i].engagement >> ] ]

GenY(r) == [ i \in 1..n_samples |-> Label(risk_score(r[i])) ]

----------------------------------------------------------------------------
(* main, lines 224-255: control flow *)

AfterStage_skips_test(stage) ==
    CASE stage = "generate" -> "generated"
      [] stage = "split"    -> "split"
      [] stage = "create"   -> "created"
      [] stage = "train"    -> "trained"
      [] stage = "convert"  -> "tested"
      [] stage = "validate" -> "tested"
      [] stage = "save"     -> "done"

AfterStage(stage) ==
    CASE stage = "generate" -> "generated"
      [] stage = "split"    -> "split"
      [] stage = "create"   -> "created"
      [] stage = "train"    -> "trained"
      [] stage = "convert"  -> "converted"
      [] stage = "validate" -> "tested"
      [] stage = "save"     -> "done"

\* A stage returns normally: main goes on to the next statement.
Return(stage) ==
    /\ pc' = AfterStage(stage)
    /\ completed' = Append(completed, stage)
    /\ exit_status' = IF stage = "save" THEN "zero" ELSE exit_status
    /\ UNCHANGED failed_at

Raise_swallowed(stage) ==
    /\ pc' = AfterStage(stage)
    /\ failed_at' = stage
    /\ UNCHANGED << completed, exit_status >>

\* A stage raises: main has no try/except, the exception leaves main and the
\* interpreter exits with a non-zero status.
Raise(stage) ==
    /\ pc' = "failed"
    /\ failed_at' = stage
    /\ exit_status' = "nonzero"
    /\ UNCHANGED completed

----------------------------------------------------------------------------
(* main, lines 231-246: steps 1 to 5 *)

\* Step 1, line 232.  n_samples is a local of the callee, so n_wanted plays no part.
MainGenerate ==
    /\ pc = "start"
    /\ started' = Append(started, "generate")
    /\ X' = GenX(rng)
    /\ y' = GenY(rng)
    /\ Return("generate")
    /\ UNCHANGED << rng, n_wanted, split_idx, X_train, X_test, y_train, y_test,
                    model, tflite_model, testVars, saveVars, diskVars >>

SplitIdx_ceil(n) == (8 * n + 9) \div 10

\* int(0.8 * len(X)), line 235
SplitIdx(n) == (8 * n) \div 10

\* s[:k] and s[k:]
SliceTo(s, k) == SubSeq(s, 1, k)
SliceFrom(s, k) == SubSeq(s, k + 1, Len(s))

\* Step 2, lines 235-237.
MainSplit ==
    /\ pc = "generated"
    /\ started' = Append(started, "split")
    /\ split_idx' = SplitIdx(Len(X))
    /\ X_train' = SliceTo(X, split_idx')
    /\ X_test' = SliceFrom(X, split_idx')
    /\ y_train' = SliceTo(y, split_idx')
    /\ y_test' = SliceFrom(y, split_idx')
    /\ Return("split")
    /\ UNCHANGED << rng, n_wanted, X, y, model, tflite_model, testVars, saveVars,
                    diskVars >>

\* lines 61-72: Dense(units=1, activation='sigmoid', input_shape=(3,))
create_logistic_regression_model ==
    [ units |-> 1, input_dim |-> 3, activation |-> "sigmoid",
      fit_X |-> << >>, fit_y |-> << >> ]

\* Step 3, line 240.
MainCreate ==
    /\ pc = "split"
    /\ started' = Append(started, "create")
    /\ model' = create_logistic_regression_model
    /\ Return("create")
    /\ UNCHANGED << rng, n_wanted, dataVars, tflite_model, testVars, saveVars,
                    diskVars >>

\* lines 89-116: compile and fit on the rows it is given
train_model(m, Xt, yt) == [ m EXCEPT !.fit_X = Xt, !.fit_y = yt ]

\* Step 4, line 243.  fit raises on an empty training set or an engine error.
MainTrain ==
    /\ pc = "created"
    /\ started' = Append(started, "train")
    /\ \/ /\ Len(X_train) > 0
          /\ model' = train_model(model, X_train, y_train)
          /\ Return("train")
       \/ /\ Raise("train")
          /\ UNCHANGED model
    /\ UNCHANGED << rng, n_wanted, dataVars, tflite_model, testVars, saveVars,
                    diskVars >>

\* lines 126-152: the artifact keeps the Keras model's tensor shapes
convert_to_tflite(m) ==
    [ len |-> 1536, in_shape |-> << 1, m.input_dim >>, out_shape |-> << 1, m.units >> ]

\* Step 5, line 246.  converter.convert() may raise.
MainConvert ==
    /\ pc = "trained"
    /\ started' = Append(started, "convert")
    /\ \/ /\ tflite_model' = convert_to_tflite(model)
          /\ Return("convert")
       \/ /\ Raise("convert")
          /\ UNCHANGED tflite_model
    /\ UNCHANGED << rng, n_wanted, dataVars, model, testVars, saveVars, diskVars >>

----------------------------------------------------------------------------
(* test_tflite_model, lines 154-181, and step 6 of main, line 249 *)

\* Outputs of the sigmoid layer, in tenths.
OutputValues == {5, 7}

DECISION_THRESHOLD == 6

\* line 179
Decision(p) == IF p > DECISION_THRESHOLD THEN "APPROVE" ELSE "DENY"

\* Interpreter(...), allocate_tensors(), set_tensor() and invoke() raise on an
\* artifact that does not load or on a sample of the wrong shape; nothing in
\* the function catches.  Otherwise it prints and returns True: it compares
\* the output with nothing.  main ignores the returned value.
MainTest ==
    /\ pc = "converted"
    /\ started' = Append(started, "validate")
    /\ \/ /\ Len(X_test) > 0
          /\ \E out \in OutputValues :
                /\ test_sample' = SliceTo(X_test, 1)
                /\ invokes' = invokes + 1
                /\ output_data' = out
                /\ decision' = Decision(out)
                /\ validate_ret' = TRUE
          /\ Return("validate")
       \/ /\ Raise("validate")
          /\ UNCHANGED testVars
    /\ UNCHANGED << rng, n_wanted, dataVars, model, tflite_model, saveVars, diskVars >>

----------------------------------------------------------------------------
(* save_model_for_android, lines 183-222 *)

model_filename == "finrisk_classifier.tflite"
metadata_filename == "model_metadata.json"

KB == 1024

Metadata_floor_kb(a) ==
    [ model_name |-> "FinRisk Credit Classifier",
      model_version |-> "1.0.0",
      input_shape |-> << 1, 3 >>,
      input_names |-> << "income_normalized", "age_normalized", "app_engagement" >>,
      output_shape |-> << 1, 1 >>,
      output_name |-> "approval_probability",
      decision_threshold |-> DECISION_THRESHOLD,
      model_size_kb |-> [ num |-> a.len \div KB, den |-> 1 ] ]

\* lines 200-209: the shapes are literals; only the size is read from the artifact
Metadata(a) ==
    [ model_name |-> "FinRisk Credit Classifier",
      model_version |-> "1.0.0",
      input_shape |-> << 1, 3 >>,
      input_names |-> << "income_normalized", "age_normalized", "app_engagement" >>,
      output_shape |-> << 1, 1 >>,
      output_name |-> "approval_probability",
      decision_threshold |-> DECISION_THRESHOLD,
      model_size_kb |-> [ num |-> a.len, den |-> KB ] ]

MetadataKeys ==
    << "model_name", "model_version", "input_shape", "input_names", "output_shape",
       "output_name", "decision_threshold", "model_size_kb" >>

\* json.dump, line 214: the document is the list of key/value members in
\* insertion order
JsonDump(rec) == [ i \in 1..Len(MetadataKeys) |-> << MetadataKeys[i], rec[MetadataKeys[i]] >> ]

\* json.load followed by a lookup
JsonGet(doc, key) == doc[CHOOSE i \in DOMAIN doc : doc[i][1] = key][2]

WriteSequence_metadata_first == << metadata_filename, model_filename >>

\* lines 196-197 then 213-214
WriteSequence == << model_filename, metadata_filename >>

\* What is written to each file
Payload(name, a) == IF name = model_filename THEN a ELSE JsonDump(Metadata(a))

exist_ok_false == FALSE

\* line 190
exist_ok == TRUE

CanOpen_ignores_mode(name) == dir_exists

\* open(path, 'wb') and open(path, 'w'): an existing file is truncated whatever
\* the directory's mode; a new entry needs a writable directory
CanOpen(name) == dir_exists /\ (name \in DOMAIN files \/ dir_writable)

WriteFile_append(name, data) ==
    IF name \in DOMAIN files THEN Append(files[name].chunks, data) ELSE << data >>

\* modes 'wb' and 'w' replace the content
WriteFile(name, data) == << data >>

Put(name, entry) ==
    [ n \in DOMAIN files \cup {name} |-> IF n = name THEN entry ELSE files[n] ]

Contents(fs) == [ n \in DOMAIN fs |-> fs[n].chunks ]

NoRaise == [ op |-> "none", file |-> "" ]

\* The call begins (line 187).
SaveBegin(a) ==
    /\ save_pc' = "makedirs"
    /\ save_arg' = a
    /\ calls' = calls + 1
    /\ raised_at' = NoRaise
    /\ snap' = Contents(files)
    /\ ro_at_call' = (dir_exists /\ ~dir_writable)
    /\ existed_at_call' = dir_exists
    /\ UNCHANGED first_ok

\* The call returns (line 222) or raises; main, when it is the caller, goes on
\* to lines 254-255 or is left by the exception.
SaveEnd(ok, where) ==
    /\ save_pc' = IF ok THEN "returned" ELSE "raised"
    /\ raised_at' = where
    /\ first_ok' = IF ok /\ first_ok = << >>
                   THEN << [ artifact |-> save_arg, contents |-> Contents(files') ] >>
                   ELSE first_ok
    /\ IF pc = "saving"
       THEN /\ (IF ok THEN Return("save") ELSE Raise("save"))
            /\ UNCHANGED started
       ELSE UNCHANGED mainVars
    /\ UNCHANGED << save_arg, calls, snap, ro_at_call, existed_at_call >>

\* Step 7 of main, line 252.
MainSave ==
    /\ pc = "tested"
    /\ pc' = "saving"
    /\ started' = Append(started, "save")
    /\ SaveBegin(tflite_model)
    /\ UNCHANGED << rng, n_wanted, completed, failed_at, exit_status, dataVars,
                    model, tflite_model, testVars, diskVars >>

\* os.makedirs(output_dir, exist_ok=True), line 190
SaveMakedirs ==
    /\ save_pc = "makedirs"
    /\ \/ /\ dir_exists
          /\ exist_ok
          /\ save_pc' = "write1"
          /\ UNCHANGED << mainVars, save_arg, raised_at, calls, snap, ro_at_call,
                          existed_at_call, first_ok, diskVars >>
       \/ /\ ~dir_exists
          /\ dir_exists' = TRUE
          /\ dir_writable' = TRUE
          /\ save_pc' = "write1"
          /\ UNCHANGED << mainVars, save_arg, raised_at, calls, snap, ro_at_call,
                          existed_at_call, first_ok, files >>
       \/ /\ ~dir_exists \/ ~exist_ok
          /\ UNCHANGED diskVars
          /\ SaveEnd(FALSE, [ op |-> "makedirs", file |-> "" ])
    /\ UNCHANGED << rng, n_wanted, dataVars, model, tflite_model, testVars >>

\* One with-block: open the file, write, close (lines 196-197, 213-214).
SaveWrite(i) ==
    LET name == WriteSequence[i]
        data == Payload(name, save_arg)
    IN  /\ save_pc = (IF i = 1 THEN "write1" ELSE "write2")
        /\ \/ /\ ~CanOpen(name)
              /\ UNCHANGED diskVars
              /\ SaveEnd(FALSE, [ op |-> "open", file |-> name ])
           \/ /\ CanOpen(name)
              /\ files' = Put(name, [ chunks |-> << >>, gen |-> calls ])
              /\ UNCHANGED << dir_exists, dir_writable >>
              /\ SaveEnd(FALSE, [ op |-> "write", file |-> name ])
           \/ /\ CanOpen(name)
              /\ files' = Put(name, [ chunks |-> WriteFile(name, data), gen |-> calls ])
              /\ UNCHANGED << dir_exists, dir_writable >>
              /\ IF i = 1
                 THEN /\ save_pc' = "write2"
                      /\ UNCHANGED << mainVars, save_arg, raised_at, calls, snap,
                                      ro_at_call, existed_at_call, first_ok >>
                 ELSE SaveEnd(TRUE, NoRaise)
        /\ UNCHANGED << rng, n_wanted, dataVars, model, tflite_model, testVars >>

SaveWriteModel == SaveWrite(1)

SaveWriteMetadata == SaveWrite(2)

----------------------------------------------------------------------------
(* The pipeline: one run of main() *)

Init ==
    /\ rng \in [ 1..n_samples -> Draws ]
    /\ n_wanted \in WantedSizes
    /\ pc = "start"
    /\ started = << >>
    /\ completed = << >>
    /\ failed_at = "none"
    /\ exit_status = "running"
    /\ X = << >> /\ y = << >>
    /\ split_idx = 0
    /\ X_train = << >> /\ X_test = << >> /\ y_train = << >> /\ y_test = << >>
    /\ model = "none"
    /\ tflite_model = "none"
    /\ test_sample = << >> /\ output_data = 0 /\ decision = "none"
    /\ invokes = 0 /\ validate_ret = FALSE
    /\ save_pc = "idle"
    /\ save_arg = "none"
    /\ raised_at = NoRaise
    /\ calls = 0
    /\ dir_exists \in BOOLEAN
    /\ dir_writable \in (IF dir_exists THEN BOOLEAN ELSE {TRUE})
    /\ files = << >>
    /\ snap = << >>
    /\ ro_at_call = FALSE
    /\ existed_at_call = FALSE
    /\ first_ok = << >>

Next ==
    \/ MainGenerate
    \/ MainSplit
    \/ MainCreate
    \/ MainTrain
    \/ MainConvert
    \/ MainTest
    \/ MainSave
    \/ SaveMakedirs
    \/ SaveWriteModel
    \/ SaveWriteMetadata

Spec == Init /\ [][Next]_vars

----------------------------------------------------------------------------
(* save_model_for_android called on its own, repeatedly, on one directory *)

\* Artifacts a caller may pass: the pipeline's own (3 inputs, 1 output, two
\* byte lengths) and artifacts of other models.
Artifacts ==
    { [ len |-> 1536, in_shape |-> << 1, 3 >>, out_shape |-> << 1, 1 >> ],
      [ len |-> 1024, in_shape |-> << 1, 3 >>, out_shape |-> << 1, 1 >> ],
      [ len |-> 1536, in_shape |-> << 1, 4 >>, out_shape |-> << 1, 1 >> ],
      [ len |-> 1536, in_shape |-> << 1, 3 >>, out_shape |-> << 1, 2 >> ] }

SaveRunning == save_pc \in { "makedirs", "write1", "write2" }

\* save_model_for_android(tflite_model), line 183
CallSave ==
    /\ pc = "idle"
    /\ ~SaveRunning
    /\ calls < MaxCalls
    /\ \E a \in Artifacts : SaveBegin(a)
    /\ UNCHANGED << rng, n_wanted, mainVars, dataVars, model, tflite_model, testVars,
                    diskVars >>

\* The process is killed between two file-system calls of save.
Crash ==
    /\ pc = "idle"
    /\ SaveRunning
    /\ save_pc' = "crashed"
    /\ UNCHANGED << rng, n_wanted, mainVars, dataVars, model, tflite_model, testVars,
                    diskVars, save_arg, raised_at, calls, snap, ro_at_call,
                    existed_at_call, first_ok >>

\* Between calls the directory's write permission is changed (chmod).
Chmod ==
    /\ pc = "idle"
    /\ ~SaveRunning
    /\ dir_exists
    /\ dir_writable' = ~dir_writable
    /\ UNCHANGED << rng, n_wanted, mainVars, dataVars, model, tflite_model, testVars,
                    saveVars, dir_exists, files >>

InitSave ==
    /\ rng = [ i \in 1..n_samples |-> CHOOSE d \in Draws : d.noise = 1 ]
    /\ n_wanted = 0
    /\ pc = "idle"
    /\ started = << >>
    /\ completed = << >>
    /\ failed_at = "none"
    /\ exit_status = "running"
    /\ X = << >> /\ y = << >>
    /\ split_idx = 0
    /\ X_train = << >> /\ X_test = << >> /\ y_train = << >> /\ y_test = << >>
    /\ model = "none"
    /\ tflite_model = "none"
    /\ test_sample = << >> /\ output_data = 0 /\ decision = "none"
    /\ invokes = 0 /\ validate_ret = FALSE
    /\ save_pc = "idle"
    /\ save_arg = "none"
    /\ raised_at = NoRaise
    /\ calls = 0
    /\ dir_exists \in BOOLEAN
    /\ dir_writable \in (IF dir_exists THEN BOOLEAN ELSE {TRUE})
    /\ files = << >>
    /\ snap = << >>
    /\ ro_at_call = FALSE
    /\ existed_at_call = FALSE
    /\ first_ok = << >>

NextSave ==
    \/ CallSave
    \/ SaveMakedirs
    \/ SaveWriteModel
    \/ SaveWriteMetadata
    \/ Crash
    \/ Chmod

SpecSave == InitSave /\ [][NextSave]_vars

----------------------------------------------------------------------------
(* Properties of one run of main(), checked under Spec *)

IsPrefix(s, t) == Len(s) <= Len(t) /\ \A i \in 1..Len(s) : s[i] = t[i]

StageOrder == << "generate", "split", "create", "train", "convert", "validate", "save" >>

Ended == pc \in { "done", "failed" }

\* C1: the stages of main() run one at a time in the order generate, split,
\* create, train, convert, validate, save: the stages begun and the stages
\* returned are both prefixes of that order (so none runs twice and none is
\* skipped), at most the last stage begun has not yet returned, and a run that
\* ends in success has returned from all seven.
C1_StagesInOrder ==
    /\ IsPrefix(started, StageOrder)
    /\ IsPrefix(completed, StageOrder)
    /\ IsPrefix(completed, started)
    /\ Len(started) - Len(completed) \in { 0, 1 }
    /\ (pc = "done" => completed = StageOrder)

\* C1 witness: a successful run that has gone through all seven stages.
C1_Witness == pc = "done" /\ started = StageOrder /\ completed = StageOrder

\* C2: a stage that raises ends the run at once in the failed state with a
\* non-zero exit status: the failing stage is the last one ever begun (nothing
\* later starts, nothing is retried), every stage before it returned, and the
\* success state with exit status zero is reached only with no failure and all
\* seven stages returned.
C2_FailureEndsRun ==
    /\ (failed_at # "none") <=> (pc = "failed")
    /\ pc = "failed" =>
          /\ exit_status = "nonzero"
          /\ started # << >>
          /\ started[Len(started)] = failed_at
          /\ completed = SubSeq(started, 1, Len(started) - 1)
          /\ \A i, j \in 1..Len(started) : started[i] = started[j] => i = j
    /\ (exit_status = "zero") <=> (pc = "done")
    /\ pc = "done" => (failed_at = "none" /\ completed = StageOrder)
    /\ ~Ended => exit_status = "running"

\* C2 witness: the converter raised after four stages had returned.
C2_Witness ==
    /\ pc = "failed"
    /\ failed_at = "convert"
    /\ completed = << "generate", "split", "create", "train" >>

\* C3 (as claimed): the validator is not a gate: whatever it finds, the
\* pipeline is not stopped by it and save still runs afterwards; that is, a
\* run that began the validate stage and has ended has also begun save.
C3_SaveRunsAfterValidate ==
    (Ended /\ \E i \in 1..Len(started) : started[i] = "validate")
        => \E i \in 1..Len(started) : started[i] = "save"

\* C7: every generated row has label 1 exactly when
\* 0.5*income + 0.2*age + 0.3*engagement + noise > 0.6 (scores in hundredths,
\* so a score of exactly 60 gives 0); with zero noise (0.8, 0.5, 0.9) is
\* labelled 1 and (0.1, 0.1, 0.1) is labelled 0, and two rows with zero noise
\* and equal features have equal labels.
C7_LabelIsThresholdRule ==
    pc # "start" =>
        /\ \A i \in 1..Len(X) :
              /\ y[i] \in { 0, 1 }
              /\ (y[i] = 1) <=>
                    (5 * X[i].f[1] + 2 * X[i].f[2] + 3 * X[i].f[3] + rng[i].noise > 60)
              /\ (rng[i].noise = 0 /\ X[i].f = << 8, 5, 9 >>) => y[i] = 1
              /\ (rng[i].noise = 0 /\ X[i].f = << 1, 1, 1 >>) => y[i] = 0
        /\ \A i, j \in 1..Len(X) :
              (rng[i].noise = 0 /\ rng[j].noise = 0 /\ X[i].f = X[j].f) => y[i] = y[j]

\* C7 witness: a generated dataset holding the approve scenario, the deny
\* scenario and a row whose score is exactly 0.6 and whose label is 0.
C7_Witness ==
    /\ pc = "generated"
    /\ \E i \in 1..Len(X) : rng[i].noise = 0 /\ X[i].f = << 8, 5, 9 >> /\ y[i] = 1
    /\ \E i \in 1..Len(X) : rng[i].noise = 0 /\ X[i].f = << 1, 1, 1 >> /\ y[i] = 0
    /\ \E i \in 1..Len(X) :
          /\ 5 * X[i].f[1] + 2 * X[i].f[2] + 3 * X[i].f[3] + rng[i].noise = 60
          /\ y[i] = 0

C10_SplitIsPrefixSuffix ==
    /\ pc \notin { "start", "generated" } =>
          LET n == Len(X)
              k == (8 * n) \div 10
          IN  /\ split_idx = k
              /\ X_train = [ i \in 1..k |-> X[i] ]
              /\ X_test = [ i \in 1..(n - k) |-> X[k + i] ]
              /\ y_train = [ i \in 1..k |-> y[i] ]
              /\ y_test = [ i \in 1..(n - k) |-> y[k + i] ]
              /\ X_train \o X_test = X
              /\ y_train \o y_test = y
              /\ { r.row : r \in Range(X_train) } \cap { r.row : r \in Range(X_test) } = {}
    /\ pc \in { "trained", "converted", "tested", "saving", "done" } =>
          /\ model.fit_X = X_train
          /\ model.fit_y = y_train
    /\ invokes > 0 =>
          /\ test_sample = << X[split_idx + 1] >>
          /\ \A r \in Range(model.fit_X) : r.row # test_sample[1].row

\* C10 witness: the validator has run on the first test row after the Trainer
\* was given the rows before it.
C10_Witness ==
    /\ pc = "tested"
    /\ invokes = 1
    /\ Len(model.fit_X) = split_idx
    /\ split_idx > 0
    /\ test_sample[1].row = split_idx + 1

----------------------------------------------------------------------------
(* Properties of save_model_for_android, checked under SpecSave *)

SaveEnded == save_pc \in { "returned", "raised" }

HasBoth == { model_filename, metadata_filename } \subseteq DOMAIN files

\* The directory held neither file, or both files complete from an earlier
\* save, when the current call began.
NeitherOrBothBefore ==
    \/ snap = << >>
    \/ /\ DOMAIN snap = { model_filename, metadata_filename }
       /\ \A n \in DOMAIN snap : snap[n] # << >>

\* C4 (as claimed): a save call begun on a read-only directory fails, and
\* leaves both files with the content, or the absence, they had before the
\* call, whether the directory held neither file or both from an earlier save.
C4_ReadOnlyCallFailsAndTouchesNothing ==
    (SaveEnded /\ ro_at_call /\ NeitherOrBothBefore)
        => (save_pc = "raised" /\ Contents(files) = snap)

\* C4 (amended): a save call begun on a read-only directory that does not yet
\* hold the artifact file gets no further than opening it: it raises there,
\* the metadata file is never opened, and every file keeps the content, or the
\* absence, it had before the call.
C4_ReadOnlyCallWithoutArtifactFails ==
    (calls > 0 /\ ro_at_call /\ model_filename \notin DOMAIN snap) =>
        /\ Contents(files) = snap
        /\ save_pc \in { "makedirs", "write1", "raised", "crashed" }
        /\ save_pc = "raised" => raised_at = [ op |-> "open", file |-> model_filename ]

\* C4 witness: the call on the read-only directory has raised at the open of
\* the artifact file, neither file being there before or after.
C4_Witness ==
    /\ save_pc = "raised"
    /\ ro_at_call
    /\ raised_at = [ op |-> "open", file |-> model_filename ]
    /\ snap = << >>
    /\ files = << >>

\* C5: after a successful save, however many calls went before, the directory
\* holds exactly the two fixed-name files, and when the artifact is the one of
\* the first successful save their contents are those the first successful
\* save left; and the directory-creation step never raises for a directory
\* that already exists.
C5_SaveIsIdempotent ==
    /\ save_pc = "returned" =>
          /\ DOMAIN files = { model_filename, metadata_filename }
          /\ first_ok # << >>
          /\ save_arg = first_ok[1].artifact => Contents(files) = first_ok[1].contents
    /\ (save_pc = "raised" /\ raised_at.op = "makedirs") => ~existed_at_call

\* C5 witness: the third call, on the directory as the first successful save
\* left it and with the same artifact, has returned.
C5_Witness ==
    /\ save_pc = "returned"
    /\ calls = MaxCalls
    /\ calls >= 2
    /\ existed_at_call
    /\ first_ok # << >>
    /\ save_arg = first_ok[1].artifact
    /\ snap = first_ok[1].contents

ShapesOnDiskAgree ==
    LET art  == files[model_filename].chunks[1]
        meta == files[metadata_filename].chunks[1]
    IN  /\ JsonGet(meta, "input_shape") = art.in_shape
        /\ JsonGet(meta, "output_shape") = art.out_shape

SizeOnDiskAgrees ==
    LET art  == files[model_filename].chunks[1]
        size == JsonGet(files[metadata_filename].chunks[1], "model_size_kb")
    IN  size.num * 1024 = art.len * size.den

\* C6 (as claimed): after a successful save of any artifact, the metadata's
\* input_shape and output_shape are the tensor shapes of the artifact written
\* and model_size_kb is its byte length / 1024.
C6_MetadataMatchesEveryArtifact ==
    save_pc = "returned" => (ShapesOnDiskAgree /\ SizeOnDiskAgrees)

\* C6 (amended): after a successful save, model_size_kb is the byte length of
\* the artifact written / 1024 for every artifact, and the metadata's shapes
\* are [1,3] and [1,1]: they are the artifact's tensor shapes exactly when the
\* artifact has a [1,3] input and a [1,1] output.
C6_MetadataMatchesThreeToOneArtifact ==
    save_pc = "returned" =>
        LET art  == files[model_filename].chunks[1]
            meta == files[metadata_filename].chunks[1]
        IN  /\ SizeOnDiskAgrees
            /\ JsonGet(meta, "input_shape") = << 1, 3 >>
            /\ JsonGet(meta, "output_shape") = << 1, 1 >>
            /\ ShapesOnDiskAgree <=>
                  (art.in_shape = << 1, 3 >> /\ art.out_shape = << 1, 1 >>)

\* C6 witness: a 1536-byte artifact with a [1,3] input and a [1,1] output has
\* been saved; its metadata records 1.5 KB.
C6_Witness ==
    /\ save_pc = "returned"
    /\ HasBoth
    /\ files[model_filename].chunks[1].len = 1536
    /\ files[model_filename].chunks[1].in_shape = << 1, 3 >>
    /\ files[model_filename].chunks[1].out_shape = << 1, 1 >>
    /\ JsonGet(files[metadata_filename].chunks[1], "model_size_kb") = [ num |-> 1536, den |-> 1024 ]

ArtifactWrittenByThisCall ==
    /\ model_filename \in DOMAIN files
    /\ files[model_filename] = [ chunks |-> << save_arg >>, gen |-> calls ]

MetadataNeverNewer ==
    metadata_filename \in DOMAIN files =>
        /\ model_filename \in DOMAIN files
        /\ files[metadata_filename].gen <= files[model_filename].gen

MetadataAsBeforeTheCall ==
    IF metadata_filename \in DOMAIN snap
    THEN /\ metadata_filename \in DOMAIN files
         /\ files[metadata_filename].chunks = snap[metadata_filename]
    ELSE metadata_filename \notin DOMAIN files

\* The previous metadata if the directory held one, else none: no metadata
\* file, or one that holds nothing.
PreviousMetadataOrNone ==
    IF metadata_filename \in DOMAIN snap
    THEN /\ metadata_filename \in DOMAIN files
         /\ files[metadata_filename].chunks = snap[metadata_filename]
    ELSE \/ metadata_filename \notin DOMAIN files
         \/ files[metadata_filename].chunks = << >>

\* C9 (as claimed): the artifact file is completely written before the
\* metadata file is opened; when the call raises or the run crashes after the
\* artifact write, the disk holds the new artifact and the metadata it held
\* before the call (or none, if it held none), nothing being rolled back; and
\* the metadata file is never from a later call than the artifact file.
C9_NewArtifactWithPreviousMetadata ==
    /\ save_pc = "write2" => ArtifactWrittenByThisCall
    /\ (save_pc \in { "raised", "crashed" } /\ ArtifactWrittenByThisCall)
          => PreviousMetadataOrNone
    /\ MetadataNeverNewer

\* C9 (amended): as claimed, except that a metadata write that fails after
\* its open has truncated the file leaves an empty metadata file in place of
\* the previous metadata (or of none): otherwise the metadata file is exactly
\* as it was before the call.
C9_NewArtifactWithPreviousOrEmptyMetadata ==
    /\ save_pc = "write2" => ArtifactWrittenByThisCall
    /\ (save_pc \in { "raised", "crashed" } /\ ArtifactWrittenByThisCall) =>
          \/ MetadataAsBeforeTheCall
          \/ /\ raised_at = [ op |-> "write", file |-> metadata_filename ]
             /\ files[metadata_filename] = [ chunks |-> << >>, gen |-> calls ]
    /\ (save_pc = "raised" /\ raised_at.file = metadata_filename) => ArtifactWrittenByThisCall
    /\ MetadataNeverNewer

\* C9 witness: the run crashed between the two writes of a later call: the
\* disk holds the new artifact beside the metadata of an earlier save of a
\* different artifact.
C9_Witness ==
    /\ save_pc = "crashed"
    /\ ArtifactWrittenByThisCall
    /\ metadata_filename \in DOMAIN files
    /\ files[metadata_filename].gen < calls
    /\ files[metadata_filename].chunks # << >>
    /\ JsonGet(files[metadata_filename].chunks[1], "model_size_kb").num # save_arg.len

====
